---- MODULE Spec2Model ----
(***************************************************************************)
(* The user-account service of Coffeedoor-backend-express: the User        *)
(* collection (userSchema), the credential helpers and every handler of    *)
(* UserService, as a state machine over the document store.                *)
(*                                                                         *)
(* Each request runs in a slot of Reqs.  A handler is cut at its awaits on  *)
(* the store: every store call (findOne, create, findOneAndUpdate,         *)
(* deleteMany, deleteOne) is one atomic step, and the local computation    *)
(* that precedes it (bcrypt, crypto.randomBytes, Date.now()) belongs to    *)
(* that step.  When a request returns or throws, its slot is freed and out  *)
(* holds the request with its outcome until the next request ends.         *)
(*                                                                         *)
(* A filter reads and an update writes the paths it names: the collection  *)
(* stores 'reset.*' and 'resetPassword.*' as the handlers write them,      *)
(* though userSchema declares neither.                                     *)
(***************************************************************************)
EXTENDS Integers, FiniteSets, TLC

\* ---------------------------------------------------------------- bounds
MaxUsers == 2
MaxTokens == 2
MaxTicks == 2
MaxOrders == 3

\* ------------------------------------------------------- program constants
\* 'reset.expire': Date.now() + (3600 * 1000)
ResetTTL == 3600 * 1000
\* jwt.sign(..., { expiresIn: "2d" })
SessionTTL == 48 * ResetTTL
\* the clock advances in half-TTL steps, so that now = expire is reached
TickStep == ResetTTL \div 2

\* ------------------------------------------------------------ value sets
Reqs == {1, 2}
Phones == {"+1000", "+2000"}
Names == {"ann", "bob"}
Addresses == {"kyiv", "lviv"}
Emails == {"a@b.com"}
Passwords == {"abc123", "wrong"}
Salts == {1, 2}
\* a field the document or the request body does not have
Undefined == "undefined"
\* a field stored as null
Null == "null"
Ids == 1..MaxUsers
Tokens == 1..MaxTokens
NoId == 0
NoToken == 0
NullTime == -1

\* -------------------------------------------------------------- helpers
\* createPasswordHash: bcrypt.genSalt(5) draws the salt, bcrypt.hash binds the
\* password to it; the hash never equals the password.
NoHash == [pw |-> Undefined, salt |-> 0]
createPasswordHash(password, salt) == [pw |-> password, salt |-> salt]

\* bcrypt.compare(data, hash) for a stored hash: true exactly for the password
\* the hash was derived from, whatever the salt.
bcryptCompare(password, hash) == hash # NoHash /\ hash.pw = password

\* generateToken: jwt.sign({ _id }, SECRET_KEY, { expiresIn: "2d" })
NoJwt == [sub |-> NoId, exp |-> NullTime]
generateToken(id, t) == [sub |-> id, exp |-> t + SessionTTL]

\* what a handler returns or throws
Returned(message, user, token) ==
    [kind |-> "ok", status |-> 200, message |-> message, user |-> user,
     token |-> token, orderStatus |-> 0, userStatus |-> 0]
ApiError(status, message) ==
    [kind |-> "ApiError", status |-> status, message |-> message, user |-> NoId,
     token |-> NoJwt, orderStatus |-> 0, userStatus |-> 0]
badRequest(message) == ApiError(400, message)
forbidden(message) == ApiError(403, message)
notFound(message) == ApiError(404, message)
invalidValue(message) == ApiError(422, message)
internalError(message) == ApiError(500, message)
\* an error that is no ApiError: thrown by the store driver or by bcrypt
Thrown(kind, message) ==
    [kind |-> kind, status |-> 0, message |-> message, user |-> NoId,
     token |-> NoJwt, orderStatus |-> 0, userStatus |-> 0]
DuplicateKey == Thrown("MongoServerError", "E11000 duplicate key error")
NoRes == Thrown("none", "")

\* a document of the User collection as UserModel.create makes it
NewUser(userName, phone, address, passwordHash) ==
    [userName |-> userName, phone |-> phone, address |-> address,
     email |-> Undefined, role |-> "customer", passwordHash |-> passwordHash,
     reset |-> [token |-> NoToken, expire |-> NullTime],
     resetPassword |-> [token |-> NoToken, expire |-> NullTime, modified |-> NullTime]]

VARIABLES users, orders, nextId, nextToken, now, req, out, consumed

vars == <<users, orders, nextId, nextToken, now, req, out, consumed>>

\* a free slot; the fields are the request's inputs and the handler's locals
Idle ==
    [op |-> "idle", pc |-> "idle", phone |-> Undefined, userName |-> Undefined,
     address |-> Undefined, email |-> Undefined, password |-> Undefined,
     id |-> NoId, token |-> NoToken, n |-> 0, at |-> NullTime, raced |-> FALSE,
     res |-> NoRes]

\* a request takes the lowest slot whose previous request has ended
Free(r) == req[r].pc = "idle" /\ \A s \in Reqs : s < r => req[s].pc # "idle"

Call(op) == [Idle EXCEPT !.op = op]

\* the request in slot r ends with outcome res
Finish(r, slot, res) ==
    /\ req' = [req EXCEPT ![r] = Idle]
    /\ out' = [slot EXCEPT !.pc = "done", !.res = res]

\* the request in slot r goes on to its next await
Await(r, slot) == req' = [req EXCEPT ![r] = slot] /\ UNCHANGED out

Init ==
    /\ users = << >>
    /\ orders = [i \in Ids |-> 0]
    /\ nextId = 1
    /\ nextToken = 1
    /\ now = 0
    /\ req = [r \in Reqs |-> Idle]
    /\ out = Idle
    /\ consumed = {}

\* UserModel.findOne({ phone }): the documents a phone matches
ByPhone(phone) == {i \in DOMAIN users : users[i].phone = phone}
ByEmail(email) == {i \in DOMAIN users : users[i].email = email}

\* the collection without the unique index on phone
UniquePhone_NoIndex(phone) == TRUE

\* phone: { unique: true }: the index refuses a second document with the same
\* phone; a document without the field is indexed as null, like any other value
UniquePhone(phone) == ByPhone(phone) = {}

\* UserModel.create(doc): the new document gets the next _id
Insert(doc) ==
    /\ users' = [i \in DOMAIN users \cup {nextId} |-> IF i = nextId THEN doc ELSE users[i]]
    /\ nextId' = nextId + 1

\* the requests that have passed their lookup and are about to create a document
Creating == {s \in Reqs : req[s].pc = "create"}
CanCreate == nextId + Cardinality(Creating) <= MaxUsers

\* ------------------------------------------------------------ rawRegister
\* a lookup-or-create that overwrites the account it finds
rawRegister_Upsert(r, phone, userName, address) ==
    LET slot == [Call("rawRegister") EXCEPT !.phone = phone,
                     !.userName = userName, !.address = address]
    IN  /\ Free(r)
        /\ ByPhone(phone) # {} \/ CanCreate
        /\ IF ByPhone(phone) # {}
           THEN \E u \in ByPhone(phone) :
                /\ users' = [users EXCEPT ![u].userName = userName, ![u].address = address]
                /\ Finish(r, slot, Returned("", u, NoJwt))
           ELSE Await(r, [slot EXCEPT !.pc = "create"]) /\ UNCHANGED users
        /\ UNCHANGED <<orders, nextId, nextToken, now, consumed>>

\* const user = await UserModel.findOne({ phone }); if (user) return user;
rawRegister(r, phone, userName, address) ==
        LET slot == [Call("rawRegister") EXCEPT !.phone = phone,
                         !.userName = userName, !.address = address]
        IN  /\ Free(r)
            /\ ByPhone(phone) # {} \/ CanCreate
            /\ IF ByPhone(phone) # {}
               THEN \E u \in ByPhone(phone) : Finish(r, slot, Returned("", u, NoJwt))
               ELSE Await(r, [slot EXCEPT !.pc = "create"])
            /\ UNCHANGED <<users, orders, nextId, nextToken, now, consumed>>

\* await UserModel.create({ userName, phone, address }); return user;
\* (create throws when it fails, so the !user branch is never taken)
rawRegister_create(r) ==
    /\ req[r].op = "rawRegister" /\ req[r].pc = "create"
    /\ IF UniquePhone(req[r].phone)
       THEN /\ Insert(NewUser(req[r].userName, req[r].phone, req[r].address, NoHash))
            /\ Finish(r, req[r], Returned("", nextId, NoJwt))
       ELSE /\ Finish(r, req[r], DuplicateKey)
            /\ UNCHANGED <<users, nextId>>
    /\ UNCHANGED <<orders, nextToken, now, consumed>>

\* ----------------------------------------------------------- fullRegister
\* if (phone) { candidat = await UserModel.findOne({ phone }); if (candidat) throw }
fullRegister(r, phone, userName, password) ==
        LET slot == [Call("fullRegister") EXCEPT !.phone = phone,
                         !.userName = userName, !.password = password]
        IN  /\ Free(r)
            /\ (phone # Undefined /\ ByPhone(phone) # {}) \/ CanCreate
            /\ IF phone # Undefined /\ ByPhone(phone) # {}
               THEN Finish(r, slot, badRequest("User with ${phone} phone already exist. Please login"))
               ELSE Await(r, [slot EXCEPT !.pc = "create"])
            /\ UNCHANGED <<users, orders, nextId, nextToken, now, consumed>>

\* a create that leaves the hash out of the document
fullRegister_create_NoHash(r) ==
    /\ req[r].op = "fullRegister" /\ req[r].pc = "create"
    /\ IF UniquePhone(req[r].phone)
       THEN /\ Insert(NewUser(req[r].userName, req[r].phone, Undefined, NoHash))
            /\ Finish(r, req[r], Returned("", nextId, generateToken(nextId, now)))
       ELSE /\ Finish(r, req[r], DuplicateKey)
            /\ UNCHANGED <<users, nextId>>
    /\ UNCHANGED <<orders, nextToken, now, consumed>>

\* passwordHash = await createPasswordHash(password); user = await UserModel.create(...);
\* token = generateToken(user._id); return { user, token };
fullRegister_create(r) ==
    /\ req[r].op = "fullRegister" /\ req[r].pc = "create"
    /\ IF UniquePhone(req[r].phone)
       THEN \E salt \in Salts :
            /\ Insert(NewUser(req[r].userName, req[r].phone, Undefined,
                              createPasswordHash(req[r].password, salt)))
            /\ Finish(r, req[r], Returned("", nextId, generateToken(nextId, now)))
       ELSE /\ Finish(r, req[r], DuplicateKey)
            /\ UNCHANGED <<users, nextId>>
    /\ UNCHANGED <<orders, nextToken, now, consumed>>

\* ------------------------------------------------------------------ login
\* a login that compares the password whether or not a hash is stored
LoginOutcome_AlwaysCompare(us, phone, password, t) ==
    LET found == {i \in DOMAIN us : us[i].phone = phone}
        u == CHOOSE i \in found : \A j \in found : i <= j
    IN  IF found = {} THEN notFound("Can't find user")
        ELSE IF ~bcryptCompare(password, us[u].passwordHash)
        THEN badRequest("Incorrect login or password")
        ELSE Returned("User ${user.userName} successfully logged", u, generateToken(u, t))

\* the outcome of login({ phone, password }) on the collection us at time t
LoginOutcome(us, phone, password, t) ==
    LET found == {i \in DOMAIN us : us[i].phone = phone}
        u == CHOOSE i \in found : \A j \in found : i <= j
    IN  IF found = {} THEN notFound("Can't find user")
        ELSE IF us[u].passwordHash = NoHash
        THEN Returned("You don't have password yet. Please, set the new one", u, NoJwt)
        ELSE IF ~bcryptCompare(password, us[u].passwordHash)
        THEN badRequest("Incorrect login or password")
        ELSE Returned("User ${user.userName} successfully logged", u, generateToken(u, t))

login(r, phone, password) ==
        LET slot == [Call("login") EXCEPT !.phone = phone, !.password = password]
        IN  /\ Free(r)
            /\ Finish(r, slot, LoginOutcome(users, phone, password, now))
            /\ UNCHANGED <<users, orders, nextId, nextToken, now, consumed>>

\* ----------------------------------------------------------- findUserById
\* utils/findUserById: the account with this id, or NotFound
findUserById(id) == IF id \in DOMAIN users THEN Returned("", id, NoJwt)
                    ELSE notFound("Can't find user")

\* async loginByToken(id) { return await findUserById(id) }
loginByToken(r, id) ==
        /\ Free(r)
        /\ Finish(r, [Call("loginByToken") EXCEPT !.id = id], findUserById(id))
        /\ UNCHANGED <<users, orders, nextId, nextToken, now, consumed>>

\* ------------------------------------------------------------ setPassword
setPassword(r, id, password) ==
        LET slot == [Call("setPassword") EXCEPT !.id = id, !.password = password]
        IN  /\ Free(r)
            /\ IF id \notin DOMAIN users THEN Finish(r, slot, findUserById(id))
               ELSE IF users[id].passwordHash # NoHash
               THEN Finish(r, slot, forbidden("You have password yet. Please login"))
               ELSE Await(r, [slot EXCEPT !.pc = "update"])
            /\ UNCHANGED <<users, orders, nextId, nextToken, now, consumed>>

\* findOneAndUpdate({ _id: user._id }, { passwordHash }, { returnDocument: 'after' })
setPassword_update(r) ==
    /\ req[r].op = "setPassword" /\ req[r].pc = "update"
    /\ IF req[r].id \in DOMAIN users
       THEN \E salt \in Salts :
            /\ users' = [users EXCEPT ![req[r].id].passwordHash =
                             createPasswordHash(req[r].password, salt)]
            /\ Finish(r, req[r], Returned("Password successfully setted", req[r].id, NoJwt))
       ELSE /\ Finish(r, req[r], forbidden("Modified forbidden"))
            /\ UNCHANGED users
    /\ UNCHANGED <<orders, nextId, nextToken, now, consumed>>

\* ---------------------------------------------------------- resetPassword
\* const user = await UserModel.findOne({ email }); if (!user) throw notFound
resetPassword(r, email) ==
        LET slot == [Call("resetPassword") EXCEPT !.email = email]
        IN  /\ Free(r)
            /\ nextToken + Cardinality({s \in Reqs : req[s].op = "resetPassword"
                                                    /\ req[s].pc = "update"}) <= MaxTokens
            /\ IF ByEmail(email) = {}
               THEN Finish(r, slot, notFound("Can't find user with this email"))
               ELSE Await(r, [slot EXCEPT !.pc = "update"])
            /\ UNCHANGED <<users, orders, nextId, nextToken, now, consumed>>

\* an expiry counted in seconds: Date.now() + 3600
StoreReset_Seconds(doc, token, t) ==
    [doc EXCEPT !.reset = [token |-> token, expire |-> t + 3600]]

\* an update that keeps a token that is pending and stores the new one only
\* on an account that has none
StoreReset_KeepPending(doc, token, t) ==
    IF doc.reset.token # NoToken THEN doc
    ELSE [doc EXCEPT !.reset = [token |-> token, expire |-> t + ResetTTL]]

\* the update of resetPassword: { 'reset.token': token, 'reset.expire': Date.now() + (3600 * 1000) }
StoreReset(doc, token, t) == [doc EXCEPT !.reset = [token |-> token, expire |-> t + ResetTTL]]

\* token = crypto.randomBytes(16).toString('hex'): a value no earlier call drew;
\* findOneAndUpdate({ email }, ...) updates one of the documents with this email
resetPassword_update(r) ==
    /\ req[r].op = "resetPassword" /\ req[r].pc = "update"
    /\ nextToken' = nextToken + 1
    /\ IF ByEmail(req[r].email) = {}
       THEN /\ Finish(r, req[r], forbidden("Modified forbidden"))
            /\ UNCHANGED users
       ELSE \E u \in ByEmail(req[r].email) :
            /\ users' = [users EXCEPT ![u] = StoreReset(users[u], nextToken, now)]
            /\ Await(r, [req[r] EXCEPT !.pc = "mail", !.token = nextToken, !.id = u])
    /\ UNCHANGED <<orders, nextId, now, consumed>>

\* a catch that takes the stored token back before it throws
resetPassword_mail_Rollback(r) ==
    /\ req[r].op = "resetPassword" /\ req[r].pc = "mail"
    /\ \/ /\ Finish(r, req[r], Returned("Email successfully sent to ${status.accepted}",
                                        NoId, NoJwt))
          /\ UNCHANGED users
       \/ /\ Finish(r, req[r], invalidValue("Can't send mail"))
          /\ users' = [u \in DOMAIN users |->
                           IF users[u].reset.token = req[r].token
                           THEN [users[u] EXCEPT !.reset = [token |-> NoToken,
                                                            expire |-> NullTime]]
                           ELSE users[u]]
    /\ UNCHANGED <<orders, nextId, nextToken, now, consumed>>

\* return mailConfig(token, email).then(...).catch((err) => { throw invalidValue })
resetPassword_mail(r) ==
    /\ req[r].op = "resetPassword" /\ req[r].pc = "mail"
    /\ \/ Finish(r, req[r], Returned("Email successfully sent to ${status.accepted}", NoId, NoJwt))
       \/ Finish(r, req[r], invalidValue("Can't send mail"))
    /\ UNCHANGED <<users, orders, nextId, nextToken, now, consumed>>

\* --------------------------------------------------------- setNewPassword
\* const passwordHash = await createPasswordHash(password);
setNewPassword(r, token, password) ==
        /\ Free(r)
        /\ Await(r, [Call("setNewPassword") EXCEPT !.token = token,
                         !.password = password, !.pc = "update"])
        /\ UNCHANGED <<users, orders, nextId, nextToken, now, consumed>>

\* a filter that still accepts the token at its expiry time
ResetMatch_NotAfter(doc, token, t) == doc.reset.token = token /\ doc.reset.expire >= t

\* the filter { 'reset.token': token, 'reset.expire': { $gt: Date.now() } }
ResetMatch(doc, token, t) == doc.reset.token = token /\ doc.reset.expire > t

\* the update $set: { passwordHash, 'resetPassword.token': null,
\*                    'resetPassword.expire': null, 'resetPassword.modified': Date.now() }
CommitReset(doc, passwordHash, t) ==
    [doc EXCEPT !.passwordHash = passwordHash,
                !.resetPassword = [token |-> NoToken, expire |-> NullTime, modified |-> t]]

\* an update that matches on the token alone and looks at the expiry after
\* it has written the new passwordHash
setNewPassword_update_LateCheck(r) ==
    /\ req[r].op = "setNewPassword" /\ req[r].pc = "update"
    /\ LET match == {u \in DOMAIN users : users[u].reset.token = req[r].token}
       IN  IF match = {}
           THEN /\ Finish(r, [req[r] EXCEPT !.at = now], forbidden("Modified forbidden"))
                /\ UNCHANGED <<users, consumed>>
           ELSE \E u \in match, salt \in Salts :
                /\ users' = [users EXCEPT ![u] =
                       CommitReset(users[u], createPasswordHash(req[r].password, salt), now)]
                /\ IF users[u].reset.expire > now
                   THEN /\ consumed' = consumed \cup {req[r].token}
                        /\ Finish(r, [req[r] EXCEPT !.id = u, !.at = now],
                                  Returned("New password successfully setted", NoId, NoJwt))
                   ELSE /\ UNCHANGED consumed
                        /\ Finish(r, [req[r] EXCEPT !.at = now], forbidden("Modified forbidden"))
    /\ UNCHANGED <<orders, nextId, nextToken, now>>

\* findOneAndUpdate(filter, update): one matching document is updated, or none matches
setNewPassword_update(r) ==
    /\ req[r].op = "setNewPassword" /\ req[r].pc = "update"
    /\ LET match == {u \in DOMAIN users : ResetMatch(users[u], req[r].token, now)}
       IN  IF match = {}
           THEN /\ Finish(r, [req[r] EXCEPT !.at = now], forbidden("Modified forbidden"))
                /\ UNCHANGED <<users, consumed>>
           ELSE \E u \in match, salt \in Salts :
                /\ users' = [users EXCEPT ![u] =
                       CommitReset(users[u], createPasswordHash(req[r].password, salt), now)]
                /\ consumed' = consumed \cup {req[r].token}
                /\ out' = [req[r] EXCEPT !.pc = "done", !.id = u, !.at = now,
                               !.res = Returned("New password successfully setted", NoId, NoJwt)]
                /\ req' = [s \in Reqs |->
                       IF s = r THEN Idle
                       ELSE IF req[s].op = "setNewPassword" /\ req[s].token = req[r].token
                       THEN [req[s] EXCEPT !.raced = TRUE]
                       ELSE req[s]]
    /\ UNCHANGED <<orders, nextId, nextToken, now>>

\* -------------------------------------------------------- confirmPassword
\* bcrypt.compare rejects when the hash argument is missing
BcryptError == Thrown("Error", "data and hash arguments required")

confirmPassword(r, id, password) ==
        LET slot == [Call("confirmPassword") EXCEPT !.id = id, !.password = password]
        IN  /\ Free(r)
            /\ IF id \notin DOMAIN users THEN Finish(r, slot, findUserById(id))
               ELSE IF users[id].passwordHash = NoHash THEN Finish(r, slot, BcryptError)
               ELSE IF ~bcryptCompare(password, users[id].passwordHash)
               THEN Finish(r, slot, badRequest("Wrong password!"))
               ELSE Finish(r, slot, Returned("Password confirmed", NoId, NoJwt))
            /\ UNCHANGED <<users, orders, nextId, nextToken, now, consumed>>

\* --------------------------------------------------------- updatePassword
\* an update that never checks the new password against the current one
updatePassword_NoSameCheck(r, id, password) ==
    LET slot == [Call("updatePassword") EXCEPT !.id = id, !.password = password]
    IN  /\ Free(r)
        /\ IF password = Undefined THEN Finish(r, slot, badRequest("No data!"))
           ELSE IF id \notin DOMAIN users THEN Finish(r, slot, findUserById(id))
           ELSE IF users[id].passwordHash = NoHash THEN Finish(r, slot, BcryptError)
           ELSE Await(r, [slot EXCEPT !.pc = "update"])
        /\ UNCHANGED <<users, orders, nextId, nextToken, now, consumed>>

updatePassword(r, id, password) ==
        LET slot == [Call("updatePassword") EXCEPT !.id = id, !.password = password]
        IN  /\ Free(r)
            /\ IF password = Undefined THEN Finish(r, slot, badRequest("No data!"))
               ELSE IF id \notin DOMAIN users THEN Finish(r, slot, findUserById(id))
               ELSE IF users[id].passwordHash = NoHash THEN Finish(r, slot, BcryptError)
               ELSE IF bcryptCompare(password, users[id].passwordHash)
               THEN Finish(r, slot, badRequest("The same password!"))
               ELSE Await(r, [slot EXCEPT !.pc = "update"])
            /\ UNCHANGED <<users, orders, nextId, nextToken, now, consumed>>

\* findOneAndUpdate({ _id: id }, { passwordHash }, { returnDocument: 'after' })
updatePassword_update(r) ==
    /\ req[r].op = "updatePassword" /\ req[r].pc = "update"
    /\ IF req[r].id \in DOMAIN users
       THEN \E salt \in Salts :
            /\ users' = [users EXCEPT ![req[r].id].passwordHash =
                             createPasswordHash(req[r].password, salt)]
            /\ Finish(r, req[r], Returned("User ${updatedUser.userName} successfully updated",
                                          NoId, NoJwt))
       ELSE /\ Finish(r, req[r], forbidden("Modified forbidden"))
            /\ UNCHANGED users
    /\ UNCHANGED <<orders, nextId, nextToken, now, consumed>>

\* ---------------------------------------------------------- updateProfile
\* a field of $set: a key the body lacks is written as null
SetValue(v) == IF v = Undefined THEN Null ELSE v

\* a partial patch: a key the body lacks leaves the stored field as it is
updateProfile_Patch(r, id, userName, email, address) ==
    LET slot == [Call("updateProfile") EXCEPT !.id = id, !.userName = userName,
                     !.email = email, !.address = address]
        Patch(v, old) == IF v = Undefined THEN old ELSE v
    IN  /\ Free(r)
        /\ IF id \in DOMAIN users
           THEN /\ users' = [users EXCEPT ![id].userName = Patch(userName, @),
                                          ![id].email = Patch(email, @),
                                          ![id].address = Patch(address, @)]
                /\ Finish(r, slot, Returned("User ${updatedUser.userName} successfully updated",
                                            id, NoJwt))
           ELSE /\ Finish(r, slot, forbidden("Modified forbidden"))
                /\ UNCHANGED users
        /\ UNCHANGED <<orders, nextId, nextToken, now, consumed>>

updateProfile(r, id, userName, email, address) ==
        LET slot == [Call("updateProfile") EXCEPT !.id = id, !.userName = userName,
                         !.email = email, !.address = address]
        IN  /\ Free(r)
            /\ IF id \in DOMAIN users
               THEN /\ users' = [users EXCEPT ![id].userName = SetValue(userName),
                                              ![id].email = SetValue(email),
                                              ![id].address = SetValue(address)]
                    /\ Finish(r, slot, Returned("User ${updatedUser.userName} successfully updated",
                                                id, NoJwt))
               ELSE /\ Finish(r, slot, forbidden("Modified forbidden"))
                    /\ UNCHANGED users
            /\ UNCHANGED <<orders, nextId, nextToken, now, consumed>>

\* ------------------------------------------------------------- deleteUser
\* await findUserById(_id);
deleteUser(r, id) ==
        LET slot == [Call("deleteUser") EXCEPT !.id = id]
        IN  /\ Free(r)
            /\ IF id \notin DOMAIN users THEN Finish(r, slot, findUserById(id))
               ELSE Await(r, [slot EXCEPT !.pc = "deleteMany"])
            /\ UNCHANGED <<users, orders, nextId, nextToken, now, consumed>>

\* a cascade that deletes one order only
deleteUser_deleteMany_One(r) ==
    /\ req[r].op = "deleteUser" /\ req[r].pc = "deleteMany"
    /\ orders' = [orders EXCEPT ![req[r].id] = IF @ > 0 THEN @ - 1 ELSE 0]
    /\ Await(r, [req[r] EXCEPT !.pc = "deleteOne", !.n = IF orders[req[r].id] > 0 THEN 1 ELSE 0])
    /\ UNCHANGED <<users, nextId, nextToken, now, consumed>>

\* the account-first cascade: the first step deletes the account record and
\* leaves its orders to the second step
deleteUser_deleteMany_AccountFirst(r) ==
    /\ req[r].op = "deleteUser" /\ req[r].pc = "deleteMany"
    /\ users' = [i \in DOMAIN users \ {req[r].id} |-> users[i]]
    /\ Await(r, [req[r] EXCEPT !.pc = "deleteOne", !.n = orders[req[r].id]])
    /\ UNCHANGED <<orders, nextId, nextToken, now, consumed>>

\* const orderStatus = await OrderModel.deleteMany({ userId: _id });
deleteUser_deleteMany(r) ==
    /\ req[r].op = "deleteUser" /\ req[r].pc = "deleteMany"
    /\ orders' = [orders EXCEPT ![req[r].id] = 0]
    /\ Await(r, [req[r] EXCEPT !.pc = "deleteOne", !.n = orders[req[r].id]])
    /\ UNCHANGED <<users, nextId, nextToken, now, consumed>>

\* const userStatus = await UserModel.deleteOne({ _id }); return { orderStatus, userStatus };
deleteUser_deleteOne(r) ==
    /\ req[r].op = "deleteUser" /\ req[r].pc = "deleteOne"
    /\ users' = [i \in DOMAIN users \ {req[r].id} |-> users[i]]
    /\ Finish(r, req[r], [Returned("", NoId, NoJwt) EXCEPT
                              !.orderStatus = req[r].n,
                              !.userStatus = IF req[r].id \in DOMAIN users THEN 1 ELSE 0])
    /\ UNCHANGED <<orders, nextId, nextToken, now, consumed>>

\* the store rejects UserModel.deleteOne (connection lost, server error): the
\* await throws, the handler ends with that error and deletes no account
StoreError == Thrown("MongoError", "store unavailable")

deleteUser_deleteOne_rejects(r) ==
    /\ req[r].op = "deleteUser" /\ req[r].pc = "deleteOne"
    /\ Finish(r, req[r], StoreError)
    /\ UNCHANGED <<users, orders, nextId, nextToken, now, consumed>>

\* ------------------------------------------------------------ environment
\* the order service stores an order that references an account; it writes no
\* order for an account whose cascade delete is between its two deletes
Cascading(id) == \E s \in Reqs : req[s].op = "deleteUser" /\ req[s].pc = "deleteOne"
                                  /\ req[s].id = id

AddOrder ==
    \E id \in DOMAIN users :
        /\ ~Cascading(id)
        /\ orders[id] < MaxOrders
        /\ orders' = [orders EXCEPT ![id] = @ + 1]
        /\ UNCHANGED <<users, nextId, nextToken, now, req, out, consumed>>

\* time passes
Tick ==
    /\ now < MaxTicks * TickStep
    /\ now' = now + TickStep
    /\ UNCHANGED <<users, orders, nextId, nextToken, req, out, consumed>>

\* the steps a request takes after its first await
Continue(r) ==
    \/ rawRegister_create(r) \/ fullRegister_create(r)
    \/ setPassword_update(r) \/ updatePassword_update(r)
    \/ resetPassword_update(r) \/ resetPassword_mail(r)
    \/ setNewPassword_update(r)
    \/ deleteUser_deleteMany(r) \/ deleteUser_deleteOne(r)
    \/ deleteUser_deleteOne_rejects(r)

\* every handler of the service on every input, the order service and the clock
Next ==
    \/ \E r \in Reqs :
        \/ \E phone \in Phones, userName \in Names, address \in Addresses :
               rawRegister(r, phone, userName, address)
        \/ \E phone \in Phones \cup {Undefined}, userName \in Names, password \in Passwords :
               fullRegister(r, phone, userName, password)
        \/ \E phone \in Phones, password \in Passwords : login(r, phone, password)
        \/ \E id \in Ids : loginByToken(r, id) \/ deleteUser(r, id)
        \/ \E id \in Ids, password \in Passwords :
               setPassword(r, id, password) \/ confirmPassword(r, id, password)
        \/ \E id \in Ids, password \in Passwords \cup {Undefined} : updatePassword(r, id, password)
        \/ \E email \in Emails : resetPassword(r, email)
        \/ \E token \in Tokens, password \in Passwords : setNewPassword(r, token, password)
        \/ \E id \in Ids, userName \in Names \cup {Undefined}, email \in Emails \cup {Undefined},
              address \in Addresses \cup {Undefined} :
               updateProfile(r, id, userName, email, address)
        \/ Continue(r)
    \/ AddOrder
    \/ Tick

Spec == Init /\ [][Next]_vars

\* registration and login: guest and full registrations race for the phones
NextRegister ==
    \E r \in Reqs :
        \/ \E phone \in Phones, userName \in Names, address \in Addresses :
               rawRegister(r, phone, userName, address)
        \/ \E phone \in Phones \cup {Undefined}, password \in Passwords :
               fullRegister(r, phone, "ann", password)
        \/ \E phone \in Phones, password \in Passwords : login(r, phone, password)
        \/ rawRegister_create(r) \/ fullRegister_create(r)

SpecRegister == Init /\ [][NextRegister]_vars

\* the reset flow: a guest registers, gets an email by updateProfile, requests
\* resets and consumes tokens while time passes
NextReset ==
    \/ \E r \in Reqs :
        \/ rawRegister(r, "+1000", "ann", "kyiv")
        \/ \E id \in Ids, email \in Emails : updateProfile(r, id, "ann", email, "kyiv")
        \/ \E email \in Emails : resetPassword(r, email)
        \/ \E token \in Tokens, password \in Passwords : setNewPassword(r, token, password)
        \/ rawRegister_create(r)
        \/ resetPassword_update(r) \/ resetPassword_mail(r)
        \/ setNewPassword_update(r)
    \/ Tick

SpecReset == Init /\ [][NextReset]_vars

\* passwords: full and guest accounts log in, set, confirm and update passwords
NextPassword ==
    \E r \in Reqs :
        \/ \E phone \in Phones : rawRegister(r, phone, "ann", "kyiv")
        \/ \E phone \in Phones, password \in Passwords : fullRegister(r, phone, "ann", password)
        \/ \E phone \in Phones, password \in Passwords : login(r, phone, password)
        \/ \E id \in Ids, password \in Passwords :
               setPassword(r, id, password) \/ confirmPassword(r, id, password)
        \/ \E id \in Ids, password \in Passwords \cup {Undefined} : updatePassword(r, id, password)
        \/ rawRegister_create(r) \/ fullRegister_create(r)
        \/ setPassword_update(r) \/ updatePassword_update(r)

SpecPassword == Init /\ [][NextPassword]_vars

\* deletion: guests register, the order service stores their orders, accounts
\* are looked up by id and deleted
NextDelete ==
    \/ \E r \in Reqs :
        \/ \E phone \in Phones : rawRegister(r, phone, "ann", "kyiv")
        \/ \E id \in Ids : loginByToken(r, id) \/ deleteUser(r, id)
        \/ rawRegister_create(r)
        \/ deleteUser_deleteMany(r) \/ deleteUser_deleteOne(r)
    \/ AddOrder

SpecDelete == Init /\ [][NextDelete]_vars

\* deletion with a store that can fail between the two deletes
NextCascade ==
    \/ \E r \in Reqs :
        \/ \E phone \in Phones : rawRegister(r, phone, "ann", "kyiv")
        \/ \E id \in Ids : deleteUser(r, id)
        \/ rawRegister_create(r)
        \/ deleteUser_deleteMany(r) \/ deleteUser_deleteOne(r)
        \/ deleteUser_deleteOne_rejects(r)
    \/ AddOrder

SpecCascade == Init /\ [][NextCascade]_vars

\* profiles: full accounts are registered, replace their profile with bodies
\* that lack any of the three keys, request resets and are deleted
ProfileBodies == {<<"bob", "a@b.com", Undefined>>, <<Undefined, Undefined, "lviv">>}

NextProfile ==
    \E r \in Reqs :
        \/ \E phone \in Phones : fullRegister(r, phone, "ann", "abc123")
        \/ \E id \in Ids, body \in ProfileBodies :
               updateProfile(r, id, body[1], body[2], body[3])
        \/ \E email \in Emails : resetPassword(r, email)
        \/ \E id \in Ids : deleteUser(r, id)
        \/ fullRegister_create(r)
        \/ resetPassword_update(r) \/ resetPassword_mail(r)
        \/ deleteUser_deleteMany(r) \/ deleteUser_deleteOne(r)

SpecProfile == Init /\ [][NextProfile]_vars

\* the reset round trip: an account registered with a password gets an email,
\* requests resets, consumes tokens and logs in while time passes
NextRoundTrip ==
    \/ \E r \in Reqs :
        \/ fullRegister(r, "+1000", "ann", "abc123")
        \/ \E id \in Ids, email \in Emails : updateProfile(r, id, "ann", email, "kyiv")
        \/ \E email \in Emails : resetPassword(r, email)
        \/ \E token \in Tokens, password \in Passwords : setNewPassword(r, token, password)
        \/ \E password \in Passwords : login(r, "+1000", password)
        \/ fullRegister_create(r)
        \/ resetPassword_update(r) \/ resetPassword_mail(r)
        \/ setNewPassword_update(r)
    \/ Tick

SpecRoundTrip == Init /\ [][NextRoundTrip]_vars

\* ================================================================ claims
ForbiddenReset == forbidden("Modified forbidden")

\* this step ends a request of handler op (a handler that ends sets out)
Ends(op) == out' # out /\ out'.op = op
Hashes(us) == [u \in DOMAIN us |-> us[u].passwordHash]

\* C1: a reset token is single-use.  A setNewPassword called after its token
\* has been consumed ends Forbidden, also before the token's expiry, and
\* changes no account's passwordHash.
C1_SingleUse ==
    [][\A r \in Reqs :
          (setNewPassword_update(r) /\ req[r].token \in consumed /\ ~req[r].raced)
              => (out'.res = ForbiddenReset /\ Hashes(users') = Hashes(users))]_vars

\* C2: of two setNewPassword requests in flight together with the same valid
\* token at most one succeeds: the one that runs its update after the other
\* has succeeded ends Forbidden.
C2_OneWinner ==
    (out.op = "setNewPassword" /\ out.raced) => out.res = ForbiddenReset

\* C3: no account holds a reset token that has been used to commit a new
\* password: the successful setNewPassword cleared it.
C3_ConsumedCleared ==
    \A u \in DOMAIN users : users[u].reset.token \notin consumed

\* no account stores this token with an expiry later than the current time
NoLiveMatch(token) ==
    \A u \in DOMAIN users :
        users[u].reset.token = token => users[u].reset.expire <= now

\* C4: a setNewPassword whose token is stored with an expiry that is not
\* strictly later than the current time ends with the same Forbidden as one
\* whose token no account stores, and neither changes the collection.
C4_ExpiredLikeUnknown ==
    [][\A r \in Reqs :
          (setNewPassword_update(r) /\ NoLiveMatch(req[r].token))
              => (out'.res = ForbiddenReset /\ users' = users)]_vars

\* the token was presented exactly at its expiry time and refused
C4_Witness ==
    /\ out.op = "setNewPassword" /\ out.res = ForbiddenReset
    /\ \E u \in DOMAIN users :
           users[u].reset.token = out.token /\ users[u].reset.expire = out.at

\* C5: no two accounts have the same non-null phone, whatever the interleaving
\* of rawRegister and fullRegister requests.
C5_PhoneUnique ==
    \A i \in DOMAIN users : \A j \in DOMAIN users :
        (i # j /\ users[i].phone # Undefined) => users[i].phone # users[j].phone

\* two registrations raced for one phone and the index refused the second
C5_Witness ==
    /\ out.res = DuplicateKey /\ out.phone # Undefined
    /\ \E u \in DOMAIN users : users[u].phone = out.phone

\* C6: rawRegister with a phone that an account already has returns that
\* account (the same id as the rawRegister call before it for this phone),
\* creates nothing and leaves every account as it is, whatever userName and
\* address it carries.
C6_Idempotent ==
    [][Ends("rawRegister") =>
       \A r \in Reqs : \A phone \in Phones : \A userName \in Names : \A address \in Addresses :
          (rawRegister(r, phone, userName, address) /\ ByPhone(phone) # {})
              => /\ users' = users /\ nextId' = nextId /\ req' = req
                 /\ out'.op = "rawRegister" /\ out'.res.kind = "ok"
                 /\ ByPhone(phone) = {out'.res.user}
                 /\ (out.op = "rawRegister" /\ out.phone = phone /\ out.res.kind = "ok")
                        => out'.res.user = out.res.user]_vars

\* a second call with another userName and address got the existing account
C6_Witness ==
    /\ out.op = "rawRegister" /\ out.res.kind = "ok"
    /\ out.res.user \in DOMAIN users
    /\ users[out.res.user].userName # out.userName
    /\ users[out.res.user].address # out.address

\* C7: updatePassword with the current password ends BadRequest and changes
\* nothing; with another password it goes on to commit, and once it has
\* committed, login with the new password succeeds and login with any other
\* password, the old one included, ends BadRequest.
C7_UpdatePassword ==
    [][\A r \in Reqs :
          /\ (Ends("updatePassword") \/ req'[r].op = "updatePassword") =>
             \A id \in Ids : \A password \in Passwords :
                (updatePassword(r, id, password) /\ id \in DOMAIN users
                    /\ users[id].passwordHash # NoHash)
                  => IF bcryptCompare(password, users[id].passwordHash)
                     THEN /\ out'.res = badRequest("The same password!")
                          /\ users' = users /\ req' = req
                     ELSE /\ req'[r].op = "updatePassword" /\ req'[r].pc = "update"
                          /\ req'[r].id = id /\ req'[r].password = password
                          /\ users' = users
          /\ (updatePassword_update(r) /\ req[r].id \in DOMAIN users
                 /\ users[req[r].id].phone # Undefined)
                  => LET id == req[r].id
                         new == req[r].password
                     IN  /\ out'.res.kind = "ok"
                         /\ LoginOutcome(users', users[id].phone, new, now).kind = "ok"
                         /\ LoginOutcome(users', users[id].phone, new, now).user = id
                         /\ \A old \in Passwords \ {new} :
                                LoginOutcome(users', users[id].phone, old, now)
                                    = badRequest("Incorrect login or password")]_vars

\* an update to another password has committed
C7_Witness ==
    /\ out.op = "updatePassword" /\ out.res.kind = "ok"
    /\ bcryptCompare(out.password, users[out.id].passwordHash)

\* C8: once fullRegister has created the account and returned it with a
\* session token for its id, login with the same phone and password succeeds
\* with a session token for that id, and login with any other password ends
\* BadRequest; fullRegister with a phone an account already has ends
\* BadRequest and creates nothing.
C8_RegisterThenLogin ==
    [][\A r \in Reqs :
          /\ (fullRegister_create(r) /\ UniquePhone(req[r].phone))
                => /\ out'.res.kind = "ok" /\ out'.res.user = nextId
                   /\ out'.res.token.sub = nextId
                   /\ nextId \in DOMAIN users'
                   /\ req[r].phone # Undefined =>
                        /\ LoginOutcome(users', req[r].phone, req[r].password, now).kind = "ok"
                        /\ LoginOutcome(users', req[r].phone, req[r].password, now).token.sub
                               = nextId
                        /\ \A other \in Passwords \ {req[r].password} :
                               LoginOutcome(users', req[r].phone, other, now)
                                   = badRequest("Incorrect login or password")
          /\ Ends("fullRegister") =>
             \A phone \in Phones : \A userName \in Names : \A password \in Passwords :
                (fullRegister(r, phone, userName, password) /\ ByPhone(phone) # {})
                    => /\ out'.res.kind = "ApiError" /\ out'.res.status = 400
                       /\ users' = users /\ nextId' = nextId /\ req' = req]_vars

\* a full registration with a phone has returned its account and token
C8_Witness ==
    /\ out.op = "fullRegister" /\ out.res.kind = "ok" /\ out.phone # Undefined
    /\ out.res.token.sub = out.res.user

\* C9: login with the phone of an account that has no passwordHash returns
\* the account with the "no password yet" message and no token, whatever the
\* password; login with a phone no account has ends NotFound.
C9_LoginNoPassword ==
    [][Ends("login") =>
       \A r \in Reqs : \A phone \in Phones : \A password \in Passwords :
          login(r, phone, password)
              => /\ ByPhone(phone) = {} => out'.res = notFound("Can't find user")
                 /\ \A u \in ByPhone(phone) :
                        users[u].passwordHash = NoHash
                            => out'.res = Returned(
                                   "You don't have password yet. Please, set the new one",
                                   u, NoJwt)
                 /\ users' = users]_vars

\* a guest account logged in and got the "no password yet" result
C9_Witness ==
    /\ out.op = "login" /\ out.res.kind = "ok" /\ out.res.token = NoJwt
    /\ out.res.user \in DOMAIN users
    /\ users[out.res.user].passwordHash = NoHash

\* an _id that UserModel.create has given out
Created(id) == id < nextId

Orphaned(id) == orders[id] > 0 /\ id \notin DOMAIN users

C12_MissingHashIsFalse ==
    [][\A r \in Reqs :
          (Ends("confirmPassword") \/ Ends("updatePassword") \/ req'[r].op = "updatePassword") =>
          \A id \in Ids : \A password \in Passwords :
             (id \in DOMAIN users /\ users[id].passwordHash = NoHash)
                 => /\ confirmPassword(r, id, password)
                           => out'.res = badRequest("Wrong password!")
                    /\ updatePassword(r, id, password)
                           => /\ req'[r].op = "updatePassword" /\ req'[r].pc = "update"
                              /\ req'[r].id = id /\ req'[r].password = password]_vars

\* C13: updateProfile replaces exactly userName, email and address of the
\* account with the id, writing null for each one the body lacks; phone,
\* role, passwordHash and the reset token of that account, and every other
\* account, stay as they are.  When no account has the id (it was deleted
\* meanwhile) it ends Forbidden and changes nothing.
C13_ProfileFrame ==
    [][Ends("updateProfile") =>
       LET id == out'.id
           userName == out'.userName
           email == out'.email
           address == out'.address
       IN  /\ \E r \in Reqs : updateProfile(r, id, userName, email, address)
           /\ IF id \in DOMAIN users
                 THEN /\ out'.res.kind = "ok"
                      /\ DOMAIN users' = DOMAIN users
                      /\ users'[id].userName = (IF userName = Undefined THEN Null ELSE userName)
                      /\ users'[id].email = (IF email = Undefined THEN Null ELSE email)
                      /\ users'[id].address = (IF address = Undefined THEN Null ELSE address)
                      /\ users'[id].phone = users[id].phone
                      /\ users'[id].role = users[id].role
                      /\ users'[id].passwordHash = users[id].passwordHash
                      /\ users'[id].reset = users[id].reset
                      /\ users'[id].resetPassword = users[id].resetPassword
                      /\ \A u \in DOMAIN users \ {id} : users'[u] = users[u]
                 ELSE /\ out'.res = forbidden("Modified forbidden")
                      /\ users' = users]_vars

\* an account with a password and a pending reset token got a profile whose
\* body had an address and neither userName nor email, next to another account
C13_Witness ==
    /\ out.op = "updateProfile" /\ out.res.kind = "ok"
    /\ out.email = Undefined /\ out.userName = Undefined /\ out.address # Undefined
    /\ out.id \in DOMAIN users
    /\ users[out.id].email = Null /\ users[out.id].userName = Null
    /\ users[out.id].address = out.address
    /\ users[out.id].reset.token # NoToken /\ users[out.id].passwordHash # NoHash
    /\ DOMAIN users # {out.id}

\* C14: resetPassword for an email an account has stores a fresh token on an
\* account with this email, with the expiry one hour after the issuance; a
\* setNewPassword with a stored token, run strictly before that expiry,
\* succeeds, and after it login with the account's phone and the new password
\* succeeds while login with any other password, the previous one included,
\* ends BadRequest; resetPassword for an email no account has ends NotFound
\* and stores no token.
C14_RoundTrip ==
    [][\A r \in Reqs :
          /\ (resetPassword_update(r) /\ ByEmail(req[r].email) # {})
                => /\ req'[r].op = "resetPassword" /\ req'[r].token = nextToken
                   /\ \A u \in DOMAIN users : users[u].reset.token # nextToken
                   /\ \E u \in ByEmail(req[r].email) :
                          /\ users'[u].reset = [token |-> nextToken, expire |-> now + ResetTTL]
                          /\ users'[u].passwordHash = users[u].passwordHash
          /\ setNewPassword_update(r) =>
             \A u \in DOMAIN users :
                (users[u].reset.token = req[r].token /\ now < users[u].reset.expire)
                    => /\ out'.res = Returned("New password successfully setted", NoId, NoJwt)
                       /\ users[u].phone # Undefined =>
                          LET new == req[r].password
                          IN  /\ LoginOutcome(users', users[u].phone, new, now).kind = "ok"
                              /\ LoginOutcome(users', users[u].phone, new, now).user = u
                              /\ \A old \in Passwords \ {new} :
                                     LoginOutcome(users', users[u].phone, old, now)
                                         = badRequest("Incorrect login or password")
          /\ Ends("resetPassword") =>
             \A email \in Emails :
                (resetPassword(r, email) /\ ByEmail(email) = {})
                    => /\ out'.res = notFound("Can't find user with this email")
                       /\ users' = users /\ nextToken' = nextToken]_vars

\* an account registered with "abc123" was reset to another password and has
\* logged in with it
C14_Witness ==
    /\ out.op = "login" /\ out.res.kind = "ok" /\ out.password # "abc123"
    /\ out.res.user \in DOMAIN users
    /\ out.res.token # NoJwt
    /\ users[out.res.user].resetPassword.modified # NullTime
    /\ users[out.res.user].reset.token \in consumed

\* C15: setPassword never replaces a passwordHash that is set.  Called for an
\* account that has one it ends Forbidden and leaves it as it is; and of two
\* setPassword requests in flight together for one account without a
\* passwordHash at most one commits: the one whose update runs when the
\* other has set the hash ends Forbidden and leaves the hash as it is.
C15_SetOnce ==
    [][\A r \in Reqs :
          /\ Ends("setPassword") =>
             \A id \in Ids : \A password \in Passwords :
                (setPassword(r, id, password) /\ id \in DOMAIN users
                    /\ users[id].passwordHash # NoHash)
                  => /\ out'.res.kind = "ApiError" /\ out'.res.status = 403
                     /\ users' = users
          /\ (setPassword_update(r) /\ req[r].id \in DOMAIN users
                 /\ users[req[r].id].passwordHash # NoHash)
                  => /\ out'.res.kind = "ApiError" /\ out'.res.status = 403
                     /\ users'[req[r].id].passwordHash = users[req[r].id].passwordHash]_vars

\* the tokens a setNewPassword run now would accept for this account
ValidTokens(us, u) == {token \in Tokens : ResetMatch(us[u], token, now)}

\* C16: a second resetPassword for an account overwrites the token that is
\* pending: once the second token is stored no account stores the first, a
\* setNewPassword with the first ends Forbidden, and a setNewPassword that
\* succeeds presented the token stored last on its account; at every time an
\* account has at most one token that would be accepted.
C16_LatestOnly ==
    /\ [](\A u \in DOMAIN users : Cardinality(ValidTokens(users, u)) <= 1)
    /\ [][\A r \in Reqs :
            /\ (resetPassword_update(r) /\ ByEmail(req[r].email) # {})
                  => \E u \in ByEmail(req[r].email) :
                        /\ ValidTokens(users', u) = {nextToken}
                        /\ users[u].reset.token # NoToken
                              => \A v \in DOMAIN users' :
                                    users'[v].reset.token # users[u].reset.token
            /\ setNewPassword_update(r)
                  => /\ (\A u \in DOMAIN users : users[u].reset.token # req[r].token)
                            => out'.res = ForbiddenReset /\ users' = users
                     /\ out'.res.kind = "ok"
                            => users[out'.id].reset.token = req[r].token]_vars

\* the first token was presented after the second was stored and before the
\* hour of either was over, and was refused
C16_Witness ==
    /\ out.op = "setNewPassword" /\ out.res = ForbiddenReset
    /\ out.token # NoToken /\ out.at < ResetTTL
    /\ \E u \in DOMAIN users :
           /\ users[u].reset.token > out.token
           /\ users[u].reset.expire - ResetTTL < out.at

\* C17: a setNewPassword that ends Forbidden has changed nothing in the
\* collection: neither the step that hashes the password nor the update that
\* found no match wrote to any account, so every passwordHash and every reset
\* token is as it was.
C17_ForbiddenNoChange ==
    [][\A r \in Reqs :
          /\ (req[r].op = "idle" /\ req'[r].op = "setNewPassword") => users' = users
          /\ (setNewPassword_update(r) /\ out'.res.kind = "ApiError")
                => /\ out'.res = ForbiddenReset
                   /\ DOMAIN users' = DOMAIN users
                   /\ \A u \in DOMAIN users :
                          /\ users'[u].passwordHash = users[u].passwordHash
                          /\ users'[u].reset = users[u].reset
                          /\ users'[u] = users[u]]_vars

\* an account whose password came from a reset was presented its token again,
\* at or after the expiry and with another password: the request was refused
\* and the passwordHash is not of that password
C17_Witness ==
    /\ out.op = "setNewPassword" /\ out.res = ForbiddenReset
    /\ \E u \in DOMAIN users :
           /\ users[u].reset.token = out.token /\ users[u].reset.expire <= out.at
           /\ users[u].passwordHash # NoHash
           /\ ~bcryptCompare(out.password, users[u].passwordHash)

\* the last request that ended is a resetPassword whose mail was not sent
MailFailed == out.op = "resetPassword" /\ out.res = invalidValue("Can't send mail")

\* C18: when the mail transport fails, resetPassword ends InvalidValue and
\* the token it stored is not taken back: the failing step writes nothing, the
\* token stays on the account with its expiry, and a setNewPassword that
\* presents it before that expiry succeeds and commits the new passwordHash.
C18_TokenSurvivesMailFailure ==
    [][\A r \in Reqs :
          /\ (resetPassword_mail(r) /\ out'.res.kind # "ok")
                => /\ out'.res = invalidValue("Can't send mail")
                   /\ out'.res.status = 422
                   /\ out'.token = req[r].token /\ out'.id = req[r].id
                   /\ users' = users
          /\ (setNewPassword_update(r) /\ MailFailed /\ req[r].token = out.token
                 /\ out.id \in DOMAIN users
                 /\ users[out.id].reset.token = out.token
                 /\ now < users[out.id].reset.expire)
                => /\ out'.res = Returned("New password successfully setted", NoId, NoJwt)
                   /\ bcryptCompare(req[r].password, users'[out.id].passwordHash)]_vars

\* the mail of a reset was not sent and its token is on the account, not yet
\* expired, and a setNewPassword that presents it is about to run its update
C18_Witness ==
    /\ MailFailed
    /\ out.id \in DOMAIN users
    /\ users[out.id].reset.token = out.token
    /\ now < users[out.id].reset.expire
    /\ out.token \notin consumed
    /\ \E r \in Reqs : req[r].op = "setNewPassword" /\ req[r].token = out.token

====
